---- MODULE Spec2Model ----
(***************************************************************************)
(* A model of the retrieval core of mlops-qa-system:                       *)
(*   - VectorDatabase (src/src/embedding/vector_database.py): the FAISS    *)
(*     flat index with its documents/metadata sidecar arrays, add, search, *)
(*     save, load and clear;                                               *)
(*   - PromptManager.format_context (src/src/rag/prompt_manager.py);       *)
(*   - RAGPipeline.answer_question / batch_answer_questions                *)
(*     (src/src/rag/rag_pipeline.py) and the /ask, /ask/batch handlers     *)
(*     (src/src/api/endpoints.py);                                         *)
(*   - chunk_text (src/src/utils/text_processing.py) and                   *)
(*     EmbeddingPipeline.process_documents                                 *)
(*     (src/src/embedding/embedding_pipeline.py);                          *)
(*   - answer_question step by step, add_documents statement by statement  *)
(*     next to a search, and the global instances of the API process.      *)
(*                                                                         *)
(* Numbers.  Scores, distances, similarities and thresholds are fixed      *)
(* point: the integer n stands for n / Scale, so similarity 1.0 is Scale.  *)
(* Embeddings are plane vectors [ang, mag]: direction ang * 60 degrees and *)
(* length mag, so that inner products and squared L2 distances are exact   *)
(* integers.  Python sequences are TLA+ sequences; a Python position p is  *)
(* element p + 1.                                                          *)
(***************************************************************************)
EXTENDS Integers, Sequences, FiniteSets, TLC

VARIABLES
  config,      \* VectorDatabase: index_type, similarity_threshold, top_k, normalize_L2
  index,       \* VectorDatabase.index: the FAISS index [metric, xb]
  documents,   \* VectorDatabase.documents
  metadata,    \* VectorDatabase.metadata
  disk,        \* the index file and its JSON sidecar at the save path
  ret,         \* the last VectorDatabase call and its outcome
  saved,       \* history: the in-memory state at the last successful save
  fmt,         \* the last format_context call and the context it returned
  rag,         \* the last RAGPipeline / API call and what it returned
  chk,         \* the last chunk_text call and what it returned
  ing,         \* the last process_documents call and its outcome
  aq,          \* the answer_question call in progress: its position and its locals
  conc,        \* an add_documents call in flight and what a concurrent search saw
  api          \* the API process: its global instances and the last request served

vars == <<config, index, documents, metadata, disk, ret, saved, fmt, rag, chk, ing, aq, conc, api>>

-----------------------------------------------------------------------------
(* Bounds of the model *)

\* the index holds at most MaxDocs entries
MaxDocs == 2
\* one add_documents call adds at most MaxBatch documents
MaxBatch == 2
\* the largest k asked of a search
MaxK == 3

\* fixed-point unit: the integer Scale stands for 1.0
Scale == 2 * 5
\* stand-in for FLT_MAX, above every score and distance of the model
FltMax == 100 * Scale
\* float('-inf')
NegInf == 0 - (FltMax + 1)

Texts == {"alpha", "be"}

IndexTypes == {"IndexFlatIP", "IndexFlatL2"}
\* 0.7 is the default of the code; 0.0 and -inf are other configured values
Thresholds == {7, 0, NegInf}

-----------------------------------------------------------------------------
(* Python helpers *)

\* seq[i] for a Python index i (negative indices count from the end)
PyInRange(seq, i) == i < Len(seq) /\ i >= 0 - Len(seq)
PyGet(seq, i) == IF i >= 0 THEN seq[i + 1] ELSE seq[Len(seq) + i + 1]

\* dict.get(key, default)
DictGet(d, key, default) == IF key \in DOMAIN d THEN d[key] ELSE default

\* an Optional argument
None == [given |-> FALSE]
Some(v) == [given |-> TRUE, val |-> v]
\* truth value of an Optional[list]: None and [] are falsy
Truthy(opt) == opt.given /\ Len(opt.val) > 0

-----------------------------------------------------------------------------
(* Embeddings and the FAISS flat index *)

\* cosine of d * 60 degrees, fixed point
Cos60(d) ==
  LET a == IF d < 0 THEN 0 - d ELSE d
  IN  CASE a % 6 = 0 -> Scale
        [] a % 6 = 1 -> 5
        [] a % 6 = 2 -> 0 - 5
        [] a % 6 = 3 -> 0 - Scale
        [] a % 6 = 4 -> 0 - 5
        [] OTHER     -> 5

\* the embedding a caller hands over for a text (not necessarily unit length)
RawEmbedding(t) ==
  CASE t = "alpha" -> [ang |-> 0, mag |-> 1]
    [] t = "be"    -> [ang |-> 1, mag |-> 2]
    [] OTHER       -> [ang |-> 3, mag |-> 1]

\* faiss.normalize_L2
NormalizeL2(v) == [ang |-> v.ang, mag |-> 1]

InnerProduct(u, v) == u.mag * v.mag * Cos60(u.ang - v.ang)
L2Squared(u, v) == (u.mag * u.mag + v.mag * v.mag) * Scale - 2 * InnerProduct(u, v)

\* the score FAISS reports for a stored vector: inner product, or squared L2 distance
FaissScore(metric, u, v) ==
  IF metric = "IndexFlatIP" THEN InnerProduct(u, v) ELSE L2Squared(u, v)

\* the value FAISS reports in a padding slot
FaissPad(metric) == IF metric = "IndexFlatIP" THEN 0 - FltMax ELSE FltMax

FaissBetter(metric, s, t) == IF metric = "IndexFlatIP" THEN s > t ELSE s < t

\* index.search(query, k): the k best stored vectors, best first; when fewer
\* than k are stored the remaining slots hold label -1
RECURSIVE FaissTopK(_, _, _, _)
FaissTopK(idx, q, S, k) ==
  IF k = 0 THEN <<>>
  ELSE IF S = {} THEN
    <<[distance |-> FaissPad(idx.metric), index |-> 0 - 1]>> \o FaissTopK(idx, q, S, k - 1)
  ELSE
    LET sc(i) == FaissScore(idx.metric, q, idx.xb[i])
        b == CHOOSE i \in S : \A j \in S \ {i} :
                \/ FaissBetter(idx.metric, sc(i), sc(j))
                \/ (sc(i) = sc(j) /\ i < j)
    IN  <<[distance |-> sc(b), index |-> b - 1]>> \o FaissTopK(idx, q, S \ {b}, k - 1)

FaissSearch(idx, q, k) == FaissTopK(idx, q, 1..Len(idx.xb), k)

\* faiss.IndexFlatIP(d) / faiss.IndexFlatL2(d)
InitializeIndex(index_type, dimension) ==
  [metric |-> index_type, d |-> dimension, xb |-> <<>>]

-----------------------------------------------------------------------------
(* VectorDatabase *)

\* mutant: search that scans the whole index whatever k is
SearchAll(idx, query_embedding, k) ==
  FaissSearch(idx, IF config.normalize_L2 THEN NormalizeL2(query_embedding)
                   ELSE query_embedding, Len(idx.xb))

\* VectorDatabase.search: k = k or top_k, query normalised when configured
Search(idx, query_embedding, k) ==
  LET kk == IF k = 0 THEN config.top_k ELSE k
      q  == IF config.normalize_L2 THEN NormalizeL2(query_embedding) ELSE query_embedding
  IN  FaissSearch(idx, q, kk)

\* VectorDatabase.get_document
GetDocument(docs, meta, i) ==
  IF i >= Len(docs) THEN [raised |-> "IndexError"]
  ELSE IF ~PyInRange(docs, i) \/ ~PyInRange(meta, i) THEN [raised |-> "IndexError"]
  ELSE [raised |-> "none", document |-> PyGet(docs, i), metadata |-> PyGet(meta, i)]

\* mutant: the threshold filter left out
PassesThresholdOff(similarity) == TRUE

\* the threshold filter of search_with_metadata
PassesThreshold(similarity) == similarity >= config.similarity_threshold

\* the loop of search_with_metadata over zip(distances, indices), from hit i on
RECURSIVE SearchLoop(_, _, _, _)
SearchLoop(docs, meta, hits, i) ==
  IF i > Len(hits) THEN [raised |-> "none", results |-> <<>>]
  ELSE
    LET h == hits[i]
    IN  IF h.index < Len(docs) THEN
          LET d == GetDocument(docs, meta, h.index)
          IN  IF d.raised # "none" THEN [raised |-> d.raised, results |-> <<>>]
              ELSE
                LET similarity == IF config.index_type = "IndexFlatL2"
                                  THEN Scale - h.distance ELSE h.distance
                    result == [index |-> h.index, text |-> d.document,
                               metadata |-> d.metadata, similarity |-> similarity,
                               distance |-> h.distance, rank |-> i]
                    rest == SearchLoop(docs, meta, hits, i + 1)
                IN  IF rest.raised # "none" THEN rest
                    ELSE IF PassesThreshold(similarity)
                         THEN [raised |-> "none", results |-> <<result>> \o rest.results]
                         ELSE rest
        ELSE SearchLoop(docs, meta, hits, i + 1)

\* VectorDatabase.search_with_metadata
SearchWithMetadata(idx, docs, meta, query_embedding, k) ==
  SearchLoop(docs, meta, Search(idx, query_embedding, k), 1)

\* the default metadata add_documents creates for a batch of n documents
DefaultMetadata(n) == [i \in 1..n |-> [index |-> i - 1]]

\* mutant: the length check made after index.add instead of before it
AddDocumentsLateCheck(docs, embeddings, meta) ==
  [raised |-> IF Len(docs) # Len(embeddings) THEN "ValueError" ELSE "none",
   index |-> [metric |-> index.metric, d |-> index.d, xb |-> index.xb \o embeddings],
   documents |-> IF Len(docs) # Len(embeddings) THEN documents ELSE documents \o docs,
   metadata |-> IF Len(docs) # Len(embeddings) THEN metadata
                ELSE metadata \o (IF Truthy(meta) THEN meta.val
                                   ELSE DefaultMetadata(Len(docs)))]

\* VectorDatabase.add_documents: the outcome and the three arrays after it
AddDocumentsEffect(docs, embeddings, meta) ==
  IF Len(docs) # Len(embeddings) THEN
    [raised |-> "ValueError", index |-> index, documents |-> documents,
     metadata |-> metadata]
  ELSE
    LET vecs == IF config.normalize_L2
                THEN [i \in 1..Len(embeddings) |-> NormalizeL2(embeddings[i])]
                ELSE embeddings
    IN  [raised |-> "none",
         index |-> [metric |-> index.metric, d |-> index.d, xb |-> index.xb \o vecs],
         documents |-> documents \o docs,
         metadata |-> metadata \o (IF Truthy(meta) THEN meta.val
                                    ELSE DefaultMetadata(Len(docs)))]

-----------------------------------------------------------------------------
(* Persistence: faiss.write_index / read_index and the JSON sidecar *)

\* faiss.write_index of a flat index: the metric, the count and the raw vectors
WriteIndex(idx) ==
  [metric |-> idx.metric, d |-> idx.d, ntotal |-> Len(idx.xb), xb |-> idx.xb]
\* faiss.read_index
ReadIndex(f) ==
  [metric |-> f.metric, d |-> f.d, xb |-> [i \in 1..f.ntotal |-> f.xb[i]]]

\* json.dump of a metadata dict: "index" holds a number, every other key a string
JsonDumpDict(m) ==
  [k \in DOMAIN m |-> IF k = "index" THEN [json |-> "number", v |-> m[k]]
                                     ELSE [json |-> "string", v |-> m[k]]]
JsonLoadDict(j) == [k \in DOMAIN j |-> j[k].v]

\* json.dump(data): documents, metadata and config
JsonDump(docs, meta, cfg) ==
  [documents |-> [i \in 1..Len(docs) |-> [json |-> "string", v |-> docs[i]]],
   metadata  |-> [i \in 1..Len(meta) |-> [json |-> "object", v |-> JsonDumpDict(meta[i])]],
   config    |-> cfg]

\* data["documents"] of json.load
LoadDocuments(sidecar) ==
  [i \in 1..Len(sidecar.documents) |-> sidecar.documents[i].v]
\* mutant: load leaves self.metadata as it was
LoadMetadataStale(sidecar) == metadata

\* data["metadata"] of json.load
LoadMetadata(sidecar) ==
  [i \in 1..Len(sidecar.metadata) |-> JsonLoadDict(sidecar.metadata[i].v)]

NoFile == [exists |-> FALSE]
NotSaved == [valid |-> FALSE]

-----------------------------------------------------------------------------
(* Inputs of the calls *)

RECURSIVE SeqsUpTo(_, _)
SeqsUpTo(S, n) ==
  IF n = 0 THEN {<<>>}
  ELSE LET shorter == SeqsUpTo(S, n - 1)
       IN  shorter \cup {Append(s, x) : s \in {t \in shorter : Len(t) = n - 1}, x \in S}

\* the metadata a caller passes for a document
MetaOf(t) == [source |-> "wiki", title |-> t]

\* the metadata arguments tried: None, [], one dict per document, one dict too few
MetaArgs(docs) ==
  LET full == [i \in 1..Len(docs) |-> MetaOf(docs[i])]
  IN  {None, Some(<<>>), Some(full)}
        \cup (IF Len(docs) > 0 THEN {Some(SubSeq(full, 1, Len(docs) - 1))} ELSE {})

\* the embeddings arguments tried: ne vectors for the documents
EmbeddingsArg(docs, ne) ==
  [i \in 1..ne |-> RawEmbedding(IF i <= Len(docs) THEN docs[i] ELSE "alpha")]

\* every add_documents call within the bounds
AddArgs ==
  UNION {{[docs |-> d, embeddings |-> EmbeddingsArg(d, ne), metadata |-> m] :
             ne \in 0..MaxBatch, m \in MetaArgs(d)} : d \in SeqsUpTo(Texts, MaxBatch)}

\* the add_documents calls of the persistence runs: with and without metadata,
\* and with a metadata list one dict short
PersistArgs ==
  {[docs |-> <<"alpha", "be">>, embeddings |-> EmbeddingsArg(<<"alpha", "be">>, 2),
    metadata |-> None],
   [docs |-> <<"be">>, embeddings |-> EmbeddingsArg(<<"be">>, 1),
    metadata |-> Some(<<MetaOf("be")>>)],
   [docs |-> <<"be", "alpha">>, embeddings |-> EmbeddingsArg(<<"be", "alpha">>, 2),
    metadata |-> Some(<<MetaOf("be")>>)],
   [docs |-> <<"alpha">>, embeddings |-> EmbeddingsArg(<<"alpha">>, 0),
    metadata |-> None]}

\* the configurations of the VectorDatabase runs
Configs ==
  [index_type : IndexTypes, dimension : {2}, similarity_threshold : Thresholds,
   top_k : {2}, normalize_L2 : {TRUE}, max_context_length : {4000}]

-----------------------------------------------------------------------------
(* The VectorDatabase as a state machine *)

\* VectorDatabase.__init__ under a configuration of the set cfgs
InitWith(cfgs) ==
  /\ config \in cfgs
  /\ index = InitializeIndex(config.index_type, config.dimension)
  /\ documents = <<>>
  /\ metadata = <<>>
  /\ disk = NoFile
  /\ ret = [op |-> "init", raised |-> "none"]
  /\ saved = NotSaved
  /\ fmt = [op |-> "init"]
  /\ rag = [op |-> "init"]
  /\ chk = [op |-> "init"]
  /\ ing = [op |-> "init"]
  /\ aq = [op |-> "init"]
  /\ conc = [op |-> "init"]
  /\ api = [op |-> "init"]

Init == InitWith(Configs)

AddDocuments(args) ==
  \E a \in args :
    LET e == AddDocumentsEffect(a.docs, a.embeddings, a.metadata)
    IN  /\ Len(e.index.xb) <= MaxDocs
        /\ index' = e.index
        /\ documents' = e.documents
        /\ metadata' = e.metadata
        /\ ret' = [op |-> "add_documents", raised |-> e.raised,
                   nd |-> Len(a.docs), ne |-> Len(a.embeddings)]
        /\ UNCHANGED <<config, disk, saved, fmt, rag, chk, ing, aq, conc, api>>

SearchWithMetadataCall ==
  \E q \in Texts, k \in 0..MaxK :
    LET r == SearchWithMetadata(index, documents, metadata, RawEmbedding(q), k)
    IN  /\ ret' = [op |-> "search_with_metadata", raised |-> r.raised,
                   results |-> r.results, k |-> k]
        /\ UNCHANGED <<config, index, documents, metadata, disk, saved, fmt, rag, chk, ing, aq, conc, api>>

\* mutant: clear that forgets the metadata list
ClearKeepsMetadata ==
  /\ index' = InitializeIndex(config.index_type, config.dimension)
  /\ documents' = <<>>
  /\ metadata' = metadata
  /\ ret' = [op |-> "clear", raised |-> "none", dropped |-> Len(documents)]
  /\ UNCHANGED <<config, disk, saved, fmt, rag, chk, ing, aq, conc, api>>

\* VectorDatabase.clear; ret.dropped is the number of entries it discarded
Clear ==
  /\ index' = InitializeIndex(config.index_type, config.dimension)
  /\ documents' = <<>>
  /\ metadata' = <<>>
  /\ ret' = [op |-> "clear", raised |-> "none", dropped |-> Len(documents)]
  /\ UNCHANGED <<config, disk, saved, fmt, rag, chk, ing, aq, conc, api>>

Save ==
  /\ disk' = [exists |-> TRUE, index_file |-> WriteIndex(index),
              sidecar |-> JsonDump(documents, metadata, config)]
  /\ saved' = [valid |-> TRUE, index |-> index, documents |-> documents,
               metadata |-> metadata]
  /\ ret' = [op |-> "save", raised |-> "none"]
  /\ UNCHANGED <<config, index, documents, metadata, fmt, rag, chk, ing, aq, conc, api>>

Load ==
  IF ~disk.exists THEN
    /\ ret' = [op |-> "load", raised |-> "RuntimeError"]
    /\ UNCHANGED <<config, index, documents, metadata, disk, saved, fmt, rag, chk, ing, aq, conc, api>>
  ELSE
    /\ index' = ReadIndex(disk.index_file)
    /\ documents' = LoadDocuments(disk.sidecar)
    /\ metadata' = LoadMetadata(disk.sidecar)
    /\ ret' = [op |-> "load", raised |-> "none"]
    /\ UNCHANGED <<config, disk, saved, fmt, rag, chk, ing, aq, conc, api>>

Next ==
  \/ AddDocuments(AddArgs)
  \/ SearchWithMetadataCall
  \/ Clear

Spec == Init /\ [][Next]_vars

NextPersist ==
  \/ AddDocuments(PersistArgs)
  \/ Clear
  \/ Save
  \/ Load

SpecPersist == Init /\ [][NextPersist]_vars

-----------------------------------------------------------------------------
(* PromptManager.format_context *)

\* a format_context call passes at most MaxResults results
MaxResults == 3

\* f"{similarity:.2f}" of a fixed-point similarity
Format2f(similarity) ==
  LET a == IF similarity < 0 THEN 0 - similarity ELSE similarity
  IN  (IF similarity < 0 THEN "-" ELSE "")
        \o ToString(a \div Scale) \o "." \o ToString(a % Scale) \o "0"

\* formatted_result of the i-th result (i counted from 1)
FormattedResult(result, i) ==
  LET text == DictGet(result, "text", "")
      meta == DictGet(result, "metadata", <<>>)
      similarity == DictGet(result, "similarity", 0)
      source == DictGet(meta, "source", "unknown")
      title == DictGet(meta, "title", "Document " \o ToString(i))
  IN  "[Source: " \o source \o ", Title: " \o title \o ", Similarity: "
        \o Format2f(similarity) \o "]\n" \o text \o "\n"

\* mutant: a result that does not fit is skipped and the loop goes on
RECURSIVE FormatLoopContinue(_, _, _, _)
FormatLoopContinue(search_results, i, current_length, max_length) ==
  IF i > Len(search_results) THEN <<>>
  ELSE
    LET formatted_result == FormattedResult(search_results[i], i)
    IN  IF current_length + Len(formatted_result) > max_length
        THEN FormatLoopContinue(search_results, i + 1, current_length, max_length)
        ELSE <<formatted_result>>
               \o FormatLoopContinue(search_results, i + 1,
                                     current_length + Len(formatted_result), max_length)

\* the loop of format_context from result i on: the context_parts it appends
RECURSIVE FormatLoop(_, _, _, _)
FormatLoop(search_results, i, current_length, max_length) ==
  IF i > Len(search_results) THEN <<>>
  ELSE
    LET formatted_result == FormattedResult(search_results[i], i)
    IN  IF current_length + Len(formatted_result) > max_length THEN <<>>
        ELSE <<formatted_result>>
               \o FormatLoop(search_results, i + 1,
                             current_length + Len(formatted_result), max_length)

\* "\n".join(parts)
RECURSIVE JoinLines(_)
JoinLines(parts) ==
  IF Len(parts) = 0 THEN ""
  ELSE IF Len(parts) = 1 THEN parts[1]
  ELSE parts[1] \o "\n" \o JoinLines(Tail(parts))

\* max_length = max_context_length or self.max_context_length (0 stands for None)
MaxLength(max_context_length) ==
  IF max_context_length = 0 THEN config.max_context_length ELSE max_context_length

\* PromptManager.format_context
FormatContext(search_results, max_context_length) ==
  JoinLines(FormatLoop(search_results, 1, 0, MaxLength(max_context_length)))

\* the results handed to format_context: with source and title, with the
\* default metadata, and without a text
FmtResultKinds ==
  {[text |-> "alpha", metadata |-> MetaOf("alpha"), similarity |-> Scale],
   [text |-> "be", metadata |-> [index |-> 0], similarity |-> 7],
   [metadata |-> [source |-> "news"], similarity |-> 0 - 5]}

FmtConfigs ==
  [index_type : {"IndexFlatIP"}, dimension : {2}, similarity_threshold : {7},
   top_k : {2}, normalize_L2 : {TRUE}, max_context_length : {60, 4000}]

\* the arguments of the format_context calls
FmtCalls ==
  {[op |-> "call", search_results |-> rs, max_context_length |-> m] :
     rs \in SeqsUpTo(FmtResultKinds, MaxResults),
     m \in {0, 45, 52, 53, 58, 100, 111, 112, 160, 170, 4000}}

\* a PromptManager and a format_context call about to be made
InitFmt ==
  /\ config \in FmtConfigs
  /\ index = InitializeIndex(config.index_type, config.dimension)
  /\ documents = <<>>
  /\ metadata = <<>>
  /\ disk = NoFile
  /\ ret = [op |-> "init", raised |-> "none"]
  /\ saved = NotSaved
  /\ fmt \in FmtCalls
  /\ rag = [op |-> "init"]
  /\ chk = [op |-> "init"]
  /\ ing = [op |-> "init"]
  /\ aq = [op |-> "init"]
  /\ conc = [op |-> "init"]
  /\ api = [op |-> "init"]

FormatContextCall ==
  /\ fmt.op = "call"
  /\ fmt' = [op |-> "format_context", search_results |-> fmt.search_results,
             max_context_length |-> fmt.max_context_length,
             context |-> FormatContext(fmt.search_results, fmt.max_context_length)]
  /\ UNCHANGED <<config, index, documents, metadata, disk, ret, saved, rag, chk, ing, aq, conc, api>>

NextFmt == FormatContextCall

SpecFmt == InitFmt /\ [][NextFmt]_vars

-----------------------------------------------------------------------------
(* chunk_text (src/src/utils/text_processing.py) *)

\* a text is a sequence of characters; the input texts have at most
\* MaxTextLen characters
MaxTextLen == 8

\* a letter, whitespace, and a sentence terminator of [.!?]
Chars == {"a", " ", "."}

IsNonEmpty(x) == x # <<>>

\* re.sub(r'\s+', ' ', text)
RECURSIVE CollapseSpaces(_)
CollapseSpaces(s) ==
  IF Len(s) <= 1 THEN s
  ELSE IF s[1] = " " /\ s[2] = " " THEN CollapseSpaces(Tail(s))
  ELSE <<s[1]>> \o CollapseSpaces(Tail(s))

RECURSIVE LStrip(_)
LStrip(s) == IF s # <<>> /\ s[1] = " " THEN LStrip(Tail(s)) ELSE s

RECURSIVE RStrip(_)
RStrip(s) ==
  IF s # <<>> /\ s[Len(s)] = " " THEN RStrip(SubSeq(s, 1, Len(s) - 1)) ELSE s

\* str.strip()
Strip(s) == RStrip(LStrip(s))

\* clean_text on a text without HTML, URLs and e-mail addresses
CleanText(text) == IF text = <<>> THEN <<>> ELSE Strip(CollapseSpaces(text))

\* the pieces of s between the characters of seps; cur is the piece being read
RECURSIVE SplitChars(_, _, _)
SplitChars(s, seps, cur) ==
  IF s = <<>> THEN <<cur>>
  ELSE IF s[1] \in seps THEN <<cur>> \o SplitChars(Tail(s), seps, <<>>)
  ELSE SplitChars(Tail(s), seps, Append(cur, s[1]))

StripAll(parts) == [i \in 1..Len(parts) |-> Strip(parts[i])]

\* re.split(r'[.!?]+', text), stripped, the empty pieces dropped
Sentences(text) == SelectSeq(StripAll(SplitChars(text, {"."}, <<>>)), IsNonEmpty)

\* str.split()
Split(s) == SelectSeq(SplitChars(s, {" "}, <<>>), IsNonEmpty)

\* " ".join(words)
RECURSIVE JoinWords(_)
JoinWords(words) ==
  IF Len(words) = 0 THEN <<>>
  ELSE IF Len(words) = 1 THEN words[1]
  ELSE words[1] \o <<" ">> \o JoinWords(Tail(words))

\* current_chunk += " " + piece if current_chunk else piece
Extend(current_chunk, piece) ==
  IF current_chunk # <<>> THEN current_chunk \o <<" ">> \o piece ELSE piece

\* chunks.append(current_chunk.strip()) when the chunk has the minimum size
AppendIfMin(chunks, current_chunk, min_chunk_size) ==
  IF current_chunk # <<>> /\ Len(current_chunk) >= min_chunk_size
  THEN Append(chunks, Strip(current_chunk)) ELSE chunks

\* the sentence loop from sentence i on, then the append of the last chunk
RECURSIVE SentenceLoop(_, _, _, _, _, _)
SentenceLoop(sentences, i, chunks, current_chunk, min_chunk_size, max_chunk_size) ==
  IF i > Len(sentences) THEN AppendIfMin(chunks, current_chunk, min_chunk_size)
  ELSE IF Len(current_chunk) + Len(sentences[i]) > max_chunk_size /\ current_chunk # <<>>
  THEN SentenceLoop(sentences, i + 1,
                    AppendIfMin(chunks, current_chunk, min_chunk_size),
                    sentences[i], min_chunk_size, max_chunk_size)
  ELSE SentenceLoop(sentences, i + 1, chunks, Extend(current_chunk, sentences[i]),
                    min_chunk_size, max_chunk_size)

\* words[-chunk_overlap//10:], where -chunk_overlap//10 is (-chunk_overlap)//10:
\* the last ceil(chunk_overlap / 10) words, and the whole list when that is 0
OverlapWords(words, chunk_overlap) ==
  IF (chunk_overlap + 9) \div 10 = 0 \/ (chunk_overlap + 9) \div 10 >= Len(words)
  THEN words
  ELSE SubSeq(words, Len(words) - ((chunk_overlap + 9) \div 10) + 1, Len(words))

\* chunks.append(current_chunk.strip()) of the word loop
AppendIfAny(chunks, current_chunk) ==
  IF current_chunk # <<>> THEN Append(chunks, Strip(current_chunk)) ELSE chunks

\* the word loop from word i on, then the append of the last chunk
RECURSIVE WordLoop(_, _, _, _, _, _)
WordLoop(words, i, chunks, current_chunk, chunk_size, chunk_overlap) ==
  IF i > Len(words) THEN AppendIfAny(chunks, current_chunk)
  ELSE IF Len(current_chunk) + Len(words[i]) + 1 > chunk_size /\ current_chunk # <<>>
  THEN WordLoop(words, i + 1, Append(chunks, Strip(current_chunk)),
                JoinWords(OverlapWords(Split(current_chunk), chunk_overlap))
                  \o <<" ">> \o words[i],
                chunk_size, chunk_overlap)
  ELSE WordLoop(words, i + 1, chunks, Extend(current_chunk, words[i]),
                chunk_size, chunk_overlap)

\* if len(chunks) <= 1: the chunks are made again, by words
WordFallback(chunks, text, chunk_size, chunk_overlap) ==
  IF Len(chunks) <= 1
  THEN WordLoop(Split(text), 1, <<>>, <<>>, chunk_size, chunk_overlap)
  ELSE chunks

\* chunk_text after clean_text
ChunkCleaned(text, chunk_size, chunk_overlap, min_chunk_size, max_chunk_size) ==
  WordFallback(SentenceLoop(Sentences(text), 1, <<>>, <<>>, min_chunk_size, max_chunk_size),
               text, chunk_size, chunk_overlap)

\* chunk_text
ChunkText(text, chunk_size, chunk_overlap, min_chunk_size, max_chunk_size) ==
  IF text = <<>> THEN <<>>
  ELSE ChunkCleaned(CleanText(text), chunk_size, chunk_overlap,
                    min_chunk_size, max_chunk_size)

\* the texts of at most n characters
RECURSIVE TextsUpTo(_)
TextsUpTo(n) ==
  IF n = 0 THEN {<<>>}
  ELSE TextsUpTo(n - 1) \cup {Append(t, c) : t \in {u \in TextsUpTo(n - 1) : Len(u) = n - 1},
                                           c \in Chars}

\* the size arguments of the chunk_text calls
ChunkParams ==
  {[chunk_size |-> 2, chunk_overlap |-> 1, min_chunk_size |-> 2, max_chunk_size |-> 3],
   [chunk_size |-> 4, chunk_overlap |-> 0, min_chunk_size |-> 1, max_chunk_size |-> 6],
   [chunk_size |-> 3, chunk_overlap |-> 20, min_chunk_size |-> 5, max_chunk_size |-> 8]}

ChunkCalls == {[op |-> "call", text |-> t, args |-> p] : t \in TextsUpTo(MaxTextLen),
                                                         p \in ChunkParams}

\* a chunk_text call about to be made
InitChunk ==
  /\ config \in FmtConfigs
  /\ index = InitializeIndex(config.index_type, config.dimension)
  /\ documents = <<>>
  /\ metadata = <<>>
  /\ disk = NoFile
  /\ ret = [op |-> "init", raised |-> "none"]
  /\ saved = NotSaved
  /\ fmt = [op |-> "init"]
  /\ rag = [op |-> "init"]
  /\ chk \in ChunkCalls
  /\ ing = [op |-> "init"]
  /\ aq = [op |-> "init"]
  /\ conc = [op |-> "init"]
  /\ api = [op |-> "init"]

ChunkTextCall ==
  /\ chk.op = "call"
  /\ chk' = [op |-> "chunk_text", text |-> chk.text, args |-> chk.args,
             chunks |-> ChunkText(chk.text, chk.args.chunk_size, chk.args.chunk_overlap,
                                  chk.args.min_chunk_size, chk.args.max_chunk_size)]
  /\ UNCHANGED <<config, index, documents, metadata, disk, ret, saved, fmt, rag, ing, aq, conc, api>>

NextChunk == ChunkTextCall

SpecChunk == InitChunk /\ [][NextChunk]_vars

-----------------------------------------------------------------------------
(* RAGPipeline.answer_question and batch_answer_questions *)

\* a batch holds at most MaxQuestions questions
MaxQuestions == 3

\* confidence is a fraction num / den of fixed-point similarities; this is 0.0
ZeroConfidence == [num |-> 0, den |-> 1]

\* str(e) of the exceptions of the model
Message(exc) ==
  CASE exc = "IndexError"        -> "list index out of range"
    [] exc = "EmbeddingError"    -> "embedding model failed"
    [] exc = "FormatError"       -> "context formatting failed"
    [] exc = "GenerationError"   -> "text generation failed"
    [] exc = "ZeroDivisionError" -> "division by zero"
    [] exc = "KeyError"          -> "'question'"
    [] OTHER                     -> exc

\* EmbeddingModel.encode_single: unit-length embedding of a text
EncodeSingle(text) == NormalizeL2(RawEmbedding(text))

\* EmbeddingPipeline.search: encode the query, search the vector database;
\* fault = "encode" is a failure of the embedding model
PipelineSearch(query, k, fault) ==
  IF fault = "encode" THEN [raised |-> "EmbeddingError", results |-> <<>>]
  ELSE SearchWithMetadata(index, documents, metadata, EncodeSingle(query), k)

\* one entry of the sources list of an answer
SourceInfo(result) ==
  LET meta == DictGet(result, "metadata", <<>>)
  IN  [source |-> DictGet(meta, "source", "unknown"),
       title |-> DictGet(meta, "title", "Unknown"),
       url |-> DictGet(meta, "url", ""),
       similarity |-> DictGet(result, "similarity", 0)]

\* mutant: the confidence taken from the best result alone
SumSimilarityTopOnly(results) == Len(results) * DictGet(results[1], "similarity", 0)

RECURSIVE SumSimilarity(_)
SumSimilarity(results) ==
  IF Len(results) = 0 THEN 0
  ELSE DictGet(results[1], "similarity", 0) + SumSimilarity(Tail(results))

\* the answer of the no-results branch
NoResultsAnswer ==
  [answer |-> "I couldn't find any relevant information to answer your question.",
   sources |-> <<>>, confidence |-> ZeroConfidence, retrieved_documents |-> 0,
   processing_time |-> "elapsed"]

\* the answer of the except branch
ErrorAnswer(exc) ==
  [answer |-> "I encountered an error while processing your question. Please try again.",
   sources |-> <<>>, confidence |-> ZeroConfidence, retrieved_documents |-> 0,
   processing_time |-> "elapsed", error |-> Message(exc)]

\* what a call of answer_question comes to: the dictionary it returns, the
\* exception that escapes it ("none" when it returns), and the calls it made
\* of llm_model.generate_with_context
Returned(result, llm) == [result |-> result, escaped |-> "none", llm |-> llm]
Escaped(exc, llm) == [result |-> <<>>, escaped |-> exc, llm |-> llm]

\* mutant: a source entry only for the results that went into the context
ResponseSourcesInContext(search_results, question, context) ==
  [answer |-> "generated",
   sources |-> [i \in 1..Len(FormatLoop(search_results, 1, 0, MaxLength(0))) |->
                  SourceInfo(search_results[i])],
   confidence |-> [num |-> SumSimilarity(search_results), den |-> Len(search_results)],
   retrieved_documents |-> Len(search_results),
   processing_time |-> "elapsed",
   question |-> question,
   context_length |-> Len(context)]

\* step 4 of answer_question: the response of the success path
Response(search_results, question, context) ==
  [answer |-> "generated",
   sources |-> [i \in 1..Len(search_results) |-> SourceInfo(search_results[i])],
   confidence |-> [num |-> SumSimilarity(search_results), den |-> Len(search_results)],
   retrieved_documents |-> Len(search_results),
   processing_time |-> "elapsed",
   question |-> question,
   context_length |-> Len(context)]

\* mutant: the try block ends before the generation step
GenerateWithContextUncaught(search_results, question, context, fault) ==
  IF fault = "generate"
  THEN Escaped("GenerationError", <<[context |-> context, question |-> question]>>)
  ELSE Returned(Response(search_results, question, context),
                <<[context |-> context, question |-> question]>>)

\* steps 3 and 4 of answer_question: generate from the context, assemble the
\* response; fault = "generate" is an exception raised by the language model
GenerateWithContext(search_results, question, context, fault) ==
  IF fault = "generate"
  THEN Returned(ErrorAnswer("GenerationError"),
                <<[context |-> context, question |-> question]>>)
  ELSE Returned(Response(search_results, question, context),
                <<[context |-> context, question |-> question]>>)

\* steps 2 to 4 of answer_question on a non-empty result list; fault = "format"
\* is an exception raised by format_context
GenerateStep(search_results, question, fault) ==
  IF fault = "format" THEN Returned(ErrorAnswer("FormatError"), <<>>)
  ELSE GenerateWithContext(search_results, question,
                           FormatContext(search_results, 0), fault)

\* what the retrieval step saw: the size of the index and the number of
\* results it got ("raised" when the search raised)
Seen(r) == [seen |-> [ntotal |-> Len(index.xb), raised |-> r.raised,
                      found |-> Len(r.results)]]

\* mutant: no short-circuit on an empty result list; the mean then divides by zero
AnswerFromSearchNoShortCircuit(r, question, fault) ==
  Seen(r) @@
  (IF r.raised # "none" THEN Returned(ErrorAnswer(r.raised), <<>>)
   ELSE IF Len(r.results) = 0 THEN
     Returned(ErrorAnswer("ZeroDivisionError"),
              <<[context |-> FormatContext(r.results, 0), question |-> question]>>)
   ELSE GenerateStep(r.results, question, fault))

\* answer_question from the outcome r of embedding_pipeline.search on
AnswerFromSearch(r, question, fault) ==
  Seen(r) @@
  (IF r.raised # "none" THEN Returned(ErrorAnswer(r.raised), <<>>)
   ELSE IF Len(r.results) = 0 THEN Returned(NoResultsAnswer, <<>>)
   ELSE GenerateStep(r.results, question, fault))

\* RAGPipeline.answer_question
AnswerQuestion(question, k, fault) ==
  AnswerFromSearch(PipelineSearch(question, k, fault), question, fault)

\* the answer batch_answer_questions appends when answer_question raises
BatchErrorAnswer(exc) ==
  [answer |-> "I encountered an error while processing this question.",
   sources |-> <<>>, confidence |-> ZeroConfidence, retrieved_documents |-> 0,
   processing_time |-> "zero", error |-> Message(exc)]

\* the answer appended for a question whose answer_question call came to o
BatchItem(o) == IF o.escaped = "none" THEN o.result ELSE BatchErrorAnswer(o.escaped)

\* mutant: a question that fails ends the loop
BatchAppendAbort(o, rest) ==
  IF o.escaped # "none" \/ "error" \in DOMAIN o.result
  THEN [answers |-> <<>>, llm |-> o.llm]
  ELSE [answers |-> <<BatchItem(o)>> \o rest.answers, llm |-> o.llm \o rest.llm]

\* one round of the loop of batch_answer_questions: the answer of this
\* question, then those of the rest
BatchAppend(o, rest) ==
  [answers |-> <<BatchItem(o)>> \o rest.answers, llm |-> o.llm \o rest.llm]

\* the loop of batch_answer_questions from question i on
RECURSIVE BatchLoop(_, _, _, _)
BatchLoop(questions, k, faults, i) ==
  IF i > Len(questions) THEN [answers |-> <<>>, llm |-> <<>>]
  ELSE BatchAppend(AnswerQuestion(questions[i], k, faults[i]),
                   BatchLoop(questions, k, faults, i + 1))

\* return answers
BatchReturn(b) == [results |-> b.answers, escaped |-> "none", llm |-> b.llm]

\* RAGPipeline.batch_answer_questions
BatchAnswerQuestions(questions, k, faults) ==
  BatchReturn(BatchLoop(questions, k, faults, 1))

-----------------------------------------------------------------------------
(* The /ask and /ask/batch handlers *)

\* the Field constraints of QuestionResponse and SourceInfo: 0 <= value <= 1
ValidResponse(result) ==
  /\ result.confidence.num >= 0
  /\ result.confidence.num <= Scale * result.confidence.den
  /\ \A i \in 1..Len(result.sources) :
       /\ result.sources[i].similarity >= 0
       /\ result.sources[i].similarity <= Scale

\* QuestionResponse(answer=result["answer"], ..., question=result["question"],
\* context_length=result["context_length"], error=result.get("error"))
QuestionResponse(result) ==
  IF "question" \notin DOMAIN result \/ "context_length" \notin DOMAIN result
  THEN [raised |-> "KeyError"]
  ELSE IF ~ValidResponse(result) THEN [raised |-> "ValidationError"]
  ELSE [raised |-> "none",
        body |-> [answer |-> result.answer, sources |-> result.sources,
                  confidence |-> result.confidence,
                  retrieved_documents |-> result.retrieved_documents,
                  processing_time |-> result.processing_time,
                  question |-> result.question,
                  context_length |-> result.context_length,
                  error |-> DictGet(result, "error", "None")]]

\* ask_question: the HTTP response
AskQuestionResponse(o) ==
  IF o.escaped # "none" THEN
    [status |-> 500, detail |-> "Error processing question: " \o Message(o.escaped)]
  ELSE
    LET r == QuestionResponse(o.result)
    IN  IF r.raised # "none"
        THEN [status |-> 500, detail |-> "Error processing question: " \o Message(r.raised)]
        ELSE [status |-> 200, body |-> r.body]

\* the conversion loop of ask_batch_questions from result i on
RECURSIVE ConvertLoop(_, _)
ConvertLoop(results, i) ==
  IF i > Len(results) THEN [raised |-> "none", answers |-> <<>>]
  ELSE
    LET r == QuestionResponse(results[i])
    IN  IF r.raised # "none" THEN [raised |-> r.raised, answers |-> <<>>]
        ELSE LET rest == ConvertLoop(results, i + 1)
             IN  IF rest.raised # "none" THEN rest
                 ELSE [raised |-> "none", answers |-> <<r.body>> \o rest.answers]

\* ask_batch_questions: the HTTP response
AskBatchResponse(b, n) ==
  IF b.escaped # "none" THEN
    [status |-> 500, detail |-> "Error processing batch questions: " \o Message(b.escaped)]
  ELSE
    LET c == ConvertLoop(b.results, 1)
    IN  IF c.raised # "none"
        THEN [status |-> 500,
              detail |-> "Error processing batch questions: " \o Message(c.raised)]
        ELSE [status |-> 200,
              body |-> [answers |-> c.answers, total_questions |-> n,
                        successful_answers |->
                          Cardinality({i \in 1..Len(c.answers) : c.answers[i].error = "None"})]]

-----------------------------------------------------------------------------
(* The RAG pipeline as a state machine *)

\* what process_documents hands to add_documents: the chunks, their unit
\* embeddings and one metadata dict per chunk
PipelineBatch(docs) ==
  [docs |-> docs, embeddings |-> [i \in 1..Len(docs) |-> EncodeSingle(docs[i])],
   metadata |-> Some([i \in 1..Len(docs) |-> MetaOf(docs[i])])]

RagArgs == {PipelineBatch(<<"alpha">>), PipelineBatch(<<"be">>),
            PipelineBatch(<<"alpha", "be">>)}

Faults == {"none", "encode", "format", "generate"}

RagConfigs ==
  [index_type : IndexTypes, dimension : {2}, similarity_threshold : {7, 5},
   top_k : {2}, normalize_L2 : {TRUE}, max_context_length : {50, 4000}]

\* the calls of answer_question and the POST /ask requests (k = 0 is None)
SingleCalls ==
  [fn : {"answer_question", "ask"}, question : Texts, k : 0..MaxK, fault : Faults]

\* the calls of batch_answer_questions and the POST /ask/batch requests: every
\* list of questions, with at most one of them made to fail in the embedding
\* model
BatchCalls ==
  UNION {{[fn |-> fn, questions |-> qs, k |-> 0,
           faults |-> [i \in 1..Len(qs) |-> IF i = j THEN "encode" ELSE "none"]] :
             j \in 0..Len(qs), fn \in {"batch_answer_questions", "ask_batch"}} :
         qs \in SeqsUpTo(Texts, MaxQuestions) \ {<<>>}}

\* a caller starts a call; the pipeline serves one call at a time
Call ==
  /\ rag.op = "init"
  /\ \E c \in SingleCalls \cup BatchCalls : rag' = [op |-> "request", call |-> c]
  /\ UNCHANGED <<config, index, documents, metadata, disk, ret, saved, fmt, chk, ing, aq, conc, api>>

\* EmbeddingPipeline.process_documents: embed the chunks and add them
ProcessDocuments ==
  /\ rag.op = "init"
  /\ AddDocuments(RagArgs)

\* EmbeddingPipeline.clear_index
ClearIndex ==
  /\ rag.op = "init"
  /\ Clear

AnswerQuestionCall ==
  /\ rag.op = "request"
  /\ rag.call.fn = "answer_question"
  /\ \E o \in {AnswerQuestion(rag.call.question, rag.call.k, rag.call.fault)} :
       rag' = [op |-> "response", call |-> rag.call] @@ o
  /\ UNCHANGED <<config, index, documents, metadata, disk, ret, saved, fmt, chk, ing, aq, conc, api>>

AskQuestion ==
  /\ rag.op = "request"
  /\ rag.call.fn = "ask"
  /\ \E o \in {AnswerQuestion(rag.call.question, rag.call.k, rag.call.fault)} :
       rag' = [op |-> "response", call |-> rag.call,
               http |-> AskQuestionResponse(o)] @@ o
  /\ UNCHANGED <<config, index, documents, metadata, disk, ret, saved, fmt, chk, ing, aq, conc, api>>

BatchAnswerQuestionsCall ==
  /\ rag.op = "request"
  /\ rag.call.fn = "batch_answer_questions"
  /\ \E b \in {BatchAnswerQuestions(rag.call.questions, rag.call.k, rag.call.faults)} :
       rag' = [op |-> "response", call |-> rag.call] @@ b
  /\ UNCHANGED <<config, index, documents, metadata, disk, ret, saved, fmt, chk, ing, aq, conc, api>>

AskBatchQuestions ==
  /\ rag.op = "request"
  /\ rag.call.fn = "ask_batch"
  /\ \E b \in {BatchAnswerQuestions(rag.call.questions, rag.call.k, rag.call.faults)} :
       rag' = [op |-> "response", call |-> rag.call,
               http |-> AskBatchResponse(b, Len(rag.call.questions))] @@ b
  /\ UNCHANGED <<config, index, documents, metadata, disk, ret, saved, fmt, chk, ing, aq, conc, api>>

\* the caller takes the outcome of its call
Return ==
  /\ rag.op = "response"
  /\ rag' = [op |-> "init"]
  /\ UNCHANGED <<config, index, documents, metadata, disk, ret, saved, fmt, chk, ing, aq, conc, api>>

InitRag == InitWith(RagConfigs)

NextRag ==
  \/ ProcessDocuments
  \/ ClearIndex
  \/ Call
  \/ AnswerQuestionCall
  \/ AskQuestion
  \/ BatchAnswerQuestionsCall
  \/ AskBatchQuestions
  \/ Return

SpecRag == InitRag /\ [][NextRag]_vars

-----------------------------------------------------------------------------
(* The API process: the module globals of endpoints.py and their accessors *)

\* the process makes at most MaxLoads attempts to load a model
MaxLoads == 4

\* the configurations of the API process
ApiConfigs ==
  [index_type : {"IndexFlatIP"}, dimension : {2}, similarity_threshold : {7},
   top_k : {2}, normalize_L2 : {TRUE}, max_context_length : {4000}]

\* the vector store of a new EmbeddingPipeline: VectorDatabase(config=config)
EmptyStore ==
  [index |-> InitializeIndex(config.index_type, config.dimension),
   documents |-> <<>>, metadata |-> <<>>]

\* the vector store a saved index of the documents docs loads as
StoreOf(docs) ==
  [index |-> [metric |-> config.index_type, d |-> config.dimension,
              xb |-> [i \in 1..Len(docs) |-> NormalizeL2(RawEmbedding(docs[i]))]],
   documents |-> docs, metadata |-> DefaultMetadata(Len(docs))]

\* the saved indexes load_index is given
SavedStores == {StoreOf(<<"alpha">>), StoreOf(<<"alpha", "be">>)}

\* what the model files allow: whether the embedding model and the language
\* model load
ModelFiles == [embedding : BOOLEAN, llm : BOOLEAN]

\* EmbeddingPipeline(config): the embedding model is loaded, or the
\* constructor raises; heap holds the vector store of every instance built
NewEmbeddingPipeline(a, lib) ==
  IF ~lib.embedding
  THEN [raised |-> TRUE, a |-> [a EXCEPT !.loads = @ + 1, !.failed = TRUE]]
  ELSE [raised |-> FALSE, id |-> Len(a.heap) + 1,
        a |-> [a EXCEPT !.loads = @ + 1, !.heap = Append(@, EmptyStore)]]

\* what RAGPipeline() makes of its EmbeddingPipeline e: the language model is
\* loaded, or the constructor raises
NewLLMModel(e, lib) ==
  IF e.raised THEN e
  ELSE IF ~lib.llm
  THEN [raised |-> TRUE, a |-> [e.a EXCEPT !.loads = @ + 1, !.failed = TRUE]]
  ELSE [raised |-> FALSE, id |-> e.id, a |-> [e.a EXCEPT !.loads = @ + 1]]

\* RAGPipeline(): its own EmbeddingPipeline, then the language model
NewRAGPipeline(a, lib) == NewLLMModel(NewEmbeddingPipeline(a, lib), lib)

\* the global is assigned when the constructor has returned
AssignRagPipeline(r) ==
  IF r.raised THEN r
  ELSE [raised |-> FALSE, id |-> r.id, a |-> [r.a EXCEPT !.rag_pipeline = r.id]]

\* get_rag_pipeline; the RAGPipeline is named by the instance of the
\* EmbeddingPipeline it owns, 0 is None
GetRagPipeline(a, lib) ==
  IF a.rag_pipeline = 0 THEN AssignRagPipeline(NewRAGPipeline(a, lib))
  ELSE [raised |-> FALSE, id |-> a.rag_pipeline, a |-> a]

AssignEmbeddingPipeline(e) ==
  IF e.raised THEN e
  ELSE [raised |-> FALSE, id |-> e.id, a |-> [e.a EXCEPT !.embedding_pipeline = e.id]]

\* mutant: get_embedding_pipeline hands out the EmbeddingPipeline of the
\* RAGPipeline when there is one
GetEmbeddingPipelineOfRag(a, lib) ==
  IF a.rag_pipeline # 0 THEN [raised |-> FALSE, id |-> a.rag_pipeline, a |-> a]
  ELSE IF a.embedding_pipeline = 0
  THEN AssignEmbeddingPipeline(NewEmbeddingPipeline(a, lib))
  ELSE [raised |-> FALSE, id |-> a.embedding_pipeline, a |-> a]

\* get_embedding_pipeline
GetEmbeddingPipeline(a, lib) ==
  IF a.embedding_pipeline = 0
  THEN AssignEmbeddingPipeline(NewEmbeddingPipeline(a, lib))
  ELSE [raised |-> FALSE, id |-> a.embedding_pipeline, a |-> a]

\* the handler answers: HTTP 500 when g raised, else 200 with what it did
Respond(endpoint, g, a200) ==
  IF g.raised THEN [g.a EXCEPT !.op = endpoint, !.status = 500]
  ELSE [a200 EXCEPT !.op = endpoint, !.status = 200]

\* POST /ask: the RAGPipeline answers from the store of its EmbeddingPipeline
AskOutcome(g) ==
  Respond("/ask", g, IF g.raised THEN g.a ELSE [g.a EXCEPT !.searched = g.a.heap[g.id]])

ApiAsk ==
  /\ \E lib \in ModelFiles :
       \E o \in {AskOutcome(GetRagPipeline(api, lib))} :
         /\ o.loads <= MaxLoads
         /\ api' = o
  /\ UNCHANGED <<config, index, documents, metadata, disk, ret, saved, fmt, rag, chk,
                 ing, aq, conc>>

\* POST /rebuild-index: clear_index on the pipeline of get_embedding_pipeline
\* when clear_existing, the rest is a placeholder
RebuildOutcome(g, clear_existing) ==
  Respond("/rebuild-index", g,
          IF g.raised \/ ~clear_existing THEN g.a
          ELSE [g.a EXCEPT !.heap[g.id] = EmptyStore])

ApiRebuildIndex ==
  /\ \E lib \in ModelFiles, clear_existing \in BOOLEAN :
       \E o \in {RebuildOutcome(GetEmbeddingPipeline(api, lib), clear_existing)} :
         /\ o.loads <= MaxLoads
         /\ api' = [o EXCEPT !.clear_existing = clear_existing]
  /\ UNCHANGED <<config, index, documents, metadata, disk, ret, saved, fmt, rag, chk,
                 ing, aq, conc>>

\* get_embedding_pipeline after get_rag_pipeline has come to g
ThenGetEmbeddingPipeline(g, lib) ==
  IF g.raised THEN g ELSE GetEmbeddingPipeline(g.a, lib)

\* GET /health and GET /info: both accessors, then read-only reports
InfoOutcome(endpoint, g) == Respond(endpoint, g, g.a)

ApiHealth ==
  /\ \E lib \in ModelFiles :
       \E o \in {InfoOutcome("/health",
                    ThenGetEmbeddingPipeline(GetRagPipeline(api, lib), lib))} :
         /\ o.loads <= MaxLoads
         /\ api' = o
  /\ UNCHANGED <<config, index, documents, metadata, disk, ret, saved, fmt, rag, chk,
                 ing, aq, conc>>

ApiInfo ==
  /\ \E lib \in ModelFiles :
       \E o \in {InfoOutcome("/info",
                    ThenGetEmbeddingPipeline(GetRagPipeline(api, lib), lib))} :
         /\ o.loads <= MaxLoads
         /\ api' = o
  /\ UNCHANGED <<config, index, documents, metadata, disk, ret, saved, fmt, rag, chk,
                 ing, aq, conc>>

\* load_index on a pipeline that has been built: RAGPipeline.load_index, or
\* EmbeddingPipeline.load_index on the pipeline of get_embedding_pipeline
ApiLoadIndex ==
  /\ \E id \in {api.rag_pipeline, api.embedding_pipeline} \ {0}, s \in SavedStores :
       api' = [api EXCEPT !.op = "load_index", !.status = 0, !.heap[id] = s]
  /\ UNCHANGED <<config, index, documents, metadata, disk, ret, saved, fmt, rag, chk,
                 ing, aq, conc>>

\* the module is imported: rag_pipeline = None, embedding_pipeline = None
InitApi ==
  /\ config \in ApiConfigs
  /\ index = InitializeIndex(config.index_type, config.dimension)
  /\ documents = <<>>
  /\ metadata = <<>>
  /\ disk = NoFile
  /\ ret = [op |-> "init", raised |-> "none"]
  /\ saved = NotSaved
  /\ fmt = [op |-> "init"]
  /\ rag = [op |-> "init"]
  /\ chk = [op |-> "init"]
  /\ ing = [op |-> "init"]
  /\ aq = [op |-> "init"]
  /\ conc = [op |-> "init"]
  /\ api = [op |-> "init", status |-> 0, rag_pipeline |-> 0, embedding_pipeline |-> 0,
            heap |-> <<>>, loads |-> 0, failed |-> FALSE, searched |-> EmptyStore,
            clear_existing |-> FALSE]

NextApi ==
  \/ ApiAsk
  \/ ApiRebuildIndex
  \/ ApiHealth
  \/ ApiInfo
  \/ ApiLoadIndex

SpecApi == InitApi /\ [][NextApi]_vars

-----------------------------------------------------------------------------
(* add_documents statement by statement, with a search in another thread *)

\* the configurations of the two-thread runs
ConcConfigs ==
  [index_type : IndexTypes, dimension : {2}, similarity_threshold : {7, NegInf},
   top_k : {2}, normalize_L2 : {TRUE}, max_context_length : {4000}]

\* add_documents is called: the length check, then on to index.add
ConcAddDocuments ==
  /\ conc.op = "init"
  /\ \E a \in PersistArgs :
       /\ Len(index.xb) + Len(a.embeddings) <= MaxDocs
       /\ IF Len(a.docs) # Len(a.embeddings)
          THEN /\ conc' = conc
               /\ ret' = [op |-> "add_documents", raised |-> "ValueError",
                          nd |-> Len(a.docs), ne |-> Len(a.embeddings)]
          ELSE /\ conc' = [op |-> "index_add", args |-> a]
               /\ ret' = ret
  /\ UNCHANGED <<config, index, documents, metadata, disk, saved, fmt, rag, chk, ing,
                 aq, api>>

\* faiss.normalize_L2(embeddings); self.index.add(embeddings)
ConcIndexAdd ==
  /\ conc.op = "index_add"
  /\ index' = [metric |-> index.metric, d |-> index.d,
               xb |-> index.xb \o (IF config.normalize_L2
                                    THEN [i \in 1..Len(conc.args.embeddings) |->
                                            NormalizeL2(conc.args.embeddings[i])]
                                    ELSE conc.args.embeddings)]
  /\ conc' = [op |-> "documents_extend", args |-> conc.args]
  /\ UNCHANGED <<config, documents, metadata, disk, ret, saved, fmt, rag, chk, ing,
                 aq, api>>

\* self.documents.extend(documents)
ConcDocumentsExtend ==
  /\ conc.op = "documents_extend"
  /\ documents' = documents \o conc.args.docs
  /\ conc' = [op |-> "metadata_extend", args |-> conc.args]
  /\ UNCHANGED <<config, index, metadata, disk, ret, saved, fmt, rag, chk, ing, aq, api>>

\* self.metadata.extend(metadata or the default metadata); add_documents returns
ConcMetadataExtend ==
  /\ conc.op = "metadata_extend"
  /\ metadata' = metadata \o (IF Truthy(conc.args.metadata) THEN conc.args.metadata.val
                               ELSE DefaultMetadata(Len(conc.args.docs)))
  /\ conc' = [op |-> "init"]
  /\ ret' = [op |-> "add_documents", raised |-> "none",
             nd |-> Len(conc.args.docs), ne |-> Len(conc.args.embeddings)]
  /\ UNCHANGED <<config, index, documents, disk, saved, fmt, rag, chk, ing, aq, api>>

\* search_with_metadata in another thread, wherever the writer stands: what it
\* returns and the three lengths it found
ConcSearchWithMetadata ==
  /\ \E q \in Texts, k \in 0..MaxK :
       \E r \in {SearchWithMetadata(index, documents, metadata, RawEmbedding(q), k)} :
         ret' = [op |-> "search_with_metadata", raised |-> r.raised,
                 results |-> r.results, k |-> k, writer |-> conc.op,
                 ntotal |-> Len(index.xb), ndocuments |-> Len(documents),
                 nmetadata |-> Len(metadata)]
  /\ UNCHANGED <<config, index, documents, metadata, disk, saved, fmt, rag, chk, ing,
                 aq, conc, api>>

InitConc == InitWith(ConcConfigs)

NextConc ==
  \/ ConcAddDocuments
  \/ ConcIndexAdd
  \/ ConcDocumentsExtend
  \/ ConcMetadataExtend
  \/ ConcSearchWithMetadata

SpecConc == InitConc /\ [][NextConc]_vars

-----------------------------------------------------------------------------
(* answer_question step by step *)

\* the configurations of the pipeline that answers step by step
AnswerConfigs ==
  [index_type : {"IndexFlatIP"}, dimension : {2}, similarity_threshold : {7},
   top_k : {2}, normalize_L2 : {TRUE}, max_context_length : {50, 4000}]

\* the calls of answer_question (k = 0 is None)
AnswerCalls == [question : Texts, k : 0..MaxK, fault : Faults]

\* answer_question has returned result after the steps of trace
AqDone(a, step, result) ==
  [op |-> "done", call |-> a.call, trace |-> Append(a.trace, step), result |-> result]

\* mutant: the no-results branch does not return, the call goes on to format
\* and generate from an empty result list
AqAfterRetrieveFallThrough(a, r) ==
  IF r.raised # "none" THEN AqDone(a, "retrieve", ErrorAnswer(r.raised))
  ELSE [op |-> "format", call |-> a.call, trace |-> Append(a.trace, "retrieve"),
        search_results |-> r.results]

\* step 1 has come to r: the except branch, the no-results branch, or on to step 2
AqAfterRetrieve(a, r) ==
  IF r.raised # "none" THEN AqDone(a, "retrieve", ErrorAnswer(r.raised))
  ELSE IF Len(r.results) = 0 THEN AqDone(a, "retrieve", NoResultsAnswer)
  ELSE [op |-> "format", call |-> a.call, trace |-> Append(a.trace, "retrieve"),
        search_results |-> r.results]

\* a caller calls answer_question (the pipeline serves one call at a time) and
\* step 1 runs: search_results = self.embedding_pipeline.search(question, k)
AqRetrieve ==
  /\ aq.op = "init"
  /\ \E c \in AnswerCalls :
       aq' = AqAfterRetrieve([call |-> c, trace |-> <<>>],
                             PipelineSearch(c.question, c.k, c.fault))
  /\ UNCHANGED <<config, index, documents, metadata, disk, ret, saved, fmt, rag, chk,
                 ing, conc, api>>

\* step 2: context = self.prompt_manager.format_context(search_results)
AqFormatContext ==
  /\ aq.op = "format"
  /\ aq' = IF aq.call.fault = "format"
           THEN AqDone(aq, "format", ErrorAnswer("FormatError"))
           ELSE [op |-> "generate", call |-> aq.call,
                 trace |-> Append(aq.trace, "format"),
                 search_results |-> aq.search_results,
                 context |-> FormatContext(aq.search_results, 0)]
  /\ UNCHANGED <<config, index, documents, metadata, disk, ret, saved, fmt, rag, chk,
                 ing, conc, api>>

\* steps 3 and 4: answer = self.llm_model.generate_with_context(context,
\* question), then the response is put together and returned
AqGenerate ==
  /\ aq.op = "generate"
  /\ aq' = IF aq.call.fault = "generate"
           THEN AqDone(aq, "generate", ErrorAnswer("GenerationError"))
           ELSE AqDone(aq, "generate",
                       Response(aq.search_results, aq.call.question, aq.context))
  /\ UNCHANGED <<config, index, documents, metadata, disk, ret, saved, fmt, rag, chk,
                 ing, conc, api>>

\* the caller takes the Answer
AqReturn ==
  /\ aq.op = "done"
  /\ aq' = [op |-> "init"]
  /\ UNCHANGED <<config, index, documents, metadata, disk, ret, saved, fmt, rag, chk,
                 ing, conc, api>>

\* process_documents between two calls
AqProcessDocuments ==
  /\ aq.op = "init"
  /\ ProcessDocuments

\* the steps of a call that has retrieved
AqStep ==
  \/ AqFormatContext
  \/ AqGenerate

InitAnswer == InitWith(AnswerConfigs)

NextAnswer ==
  \/ AqProcessDocuments
  \/ AqRetrieve
  \/ AqFormatContext
  \/ AqGenerate
  \/ AqReturn

\* every sub-call returns or raises: a call in progress takes its next step
SpecAnswer == InitAnswer /\ [][NextAnswer]_vars /\ WF_vars(AqStep)

-----------------------------------------------------------------------------
(* EmbeddingPipeline.process_documents *)

\* one process_documents call is given at most MaxIngest documents
MaxIngest == 2

\* the index holds at most MaxChunks chunks
MaxChunks == 2

\* the processing section of the configuration
Processing ==
  [chunk_size |-> 2, chunk_overlap |-> 1, min_chunk_size |-> 2, max_chunk_size |-> 3]

\* the documents handed in: without content, with a blank content, with a
\* content of one chunk, with a content of two chunks, without a content key,
\* and with a content that is not a str (written as a text of one symbol that
\* is no character)
DocKinds ==
  {[content |-> <<>>, metadata |-> [source |-> "wiki"]],
   [content |-> <<" ">>, metadata |-> [source |-> "wiki"]],
   [content |-> <<"a", "a">>, metadata |-> [source |-> "news"]],
   [content |-> <<"a", "a", "a", ".", "a", "a">>, metadata |-> [source |-> "wiki"]],
   [metadata |-> [source |-> "wiki"]],
   [content |-> <<"not a str">>, metadata |-> [source |-> "wiki"]]}

\* chunk_meta of chunk j (counted from 0) of document doc_idx
ChunkMeta(meta, doc_idx, document_chunks, j) ==
  [document_index |-> doc_idx, chunk_index |-> j,
   total_chunks |-> Len(document_chunks),
   chunk_size |-> Len(document_chunks[j + 1])] @@ meta

\* the chunks of one document and their metadata
ChunksOfDocument(document_chunks, meta, doc_idx) ==
  [chunks |-> document_chunks,
   chunk_metadata |-> [j \in 1..Len(document_chunks) |->
                         ChunkMeta(meta, doc_idx, document_chunks, j - 1)]]

\* content is a str
IsText(content) == \A i \in 1..Len(content) : content[i] \in Chars

\* the chunks of a document put before those of the documents after it
ChunkExtend(d, rest) ==
  IF rest.raised # "none" THEN rest
  ELSE [raised |-> "none", chunks |-> d.chunks \o rest.chunks,
        chunk_metadata |-> d.chunk_metadata \o rest.chunk_metadata]

\* the loop of _chunk_documents from document i (counted from 1) on;
\* chunk_text raises TypeError on a content that is not a str
RECURSIVE ChunkLoop(_, _)
ChunkLoop(docs, i) ==
  IF i > Len(docs) THEN [raised |-> "none", chunks |-> <<>>, chunk_metadata |-> <<>>]
  ELSE IF DictGet(docs[i], "content", <<>>) = <<>> THEN ChunkLoop(docs, i + 1)
  ELSE IF ~IsText(docs[i].content)
  THEN [raised |-> "TypeError", chunks |-> <<>>, chunk_metadata |-> <<>>]
  ELSE ChunkExtend(ChunksOfDocument(
                     ChunkText(docs[i].content, Processing.chunk_size,
                               Processing.chunk_overlap, Processing.min_chunk_size,
                               Processing.max_chunk_size),
                     DictGet(docs[i], "metadata", <<>>), i - 1),
                   ChunkLoop(docs, i + 1))

\* EmbeddingPipeline._chunk_documents
ChunkDocuments(docs) == ChunkLoop(docs, 1)

\* EmbeddingModel.encode of a list of chunks: one unit vector per chunk
Encode(chunks) == [i \in 1..Len(chunks) |-> [ang |-> Len(chunks[i]) % 6, mag |-> 1]]

\* the libraries under process_documents can fail: the embedding model in
\* encode, FAISS in add_documents (a dimension that does not fit the index)
\* and the file system in save; what the first two do with an empty batch is
\* theirs to decide as well
Libraries == {"encode_raises", "add_raises", "save_raises", "accepts"}

\* process_documents left by the exception exc after the steps `steps`, with
\* the vector database as it was
Failed(exc, steps, c) ==
  [raised |-> exc, steps |-> steps, encode_calls |-> <<c.chunks>>,
   index |-> index, documents |-> documents, metadata |-> metadata]

\* mutant: add_documents raises after index.add has taken the vectors
FailedInAddPartial(c) ==
  [raised |-> "AddError", steps |-> <<"chunk", "encode", "add">>,
   encode_calls |-> <<c.chunks>>,
   index |-> [metric |-> index.metric, d |-> index.d,
              xb |-> index.xb \o Encode(c.chunks)],
   documents |-> documents, metadata |-> metadata]

\* add_documents raises in normalize_L2 or index.add, before the lists grow
FailedInAdd(c) == Failed("AddError", <<"chunk", "encode", "add">>, c)

\* embedding_model.encode(chunks), then vector_db.add_documents
EncodeAndAdd(c, lib) ==
  IF c.raised # "none"
  THEN [raised |-> c.raised, steps |-> <<"chunk">>, encode_calls |-> <<>>,
        index |-> index, documents |-> documents, metadata |-> metadata]
  ELSE IF lib = "encode_raises" THEN Failed("EncodeError", <<"chunk", "encode">>, c)
  ELSE IF lib = "add_raises" THEN FailedInAdd(c)
  ELSE [steps |-> <<"chunk", "encode", "add">>, encode_calls |-> <<c.chunks>>]
         @@ AddDocumentsEffect(c.chunks, Encode(c.chunks), Some(c.chunk_metadata))

\* if save_index: self._save_index(index_path); save raises in
\* faiss.write_index, before a file is written
SaveStep(save_index, lib, o) ==
  IF o.raised # "none" \/ ~save_index THEN [persisted |-> FALSE] @@ o
  ELSE IF lib = "save_raises"
  THEN [raised |-> "SaveError", steps |-> Append(o.steps, "save"),
        persisted |-> FALSE] @@ o
  ELSE [steps |-> Append(o.steps, "save"), persisted |-> TRUE] @@ o

\* the outcome of process_documents on the chunks c: the exception it raises
\* ("none" when it returns), the steps it ran, the calls of
\* embedding_model.encode it made, and the vector database after it
ProcessChunks(c, save_index, lib) == SaveStep(save_index, lib, EncodeAndAdd(c, lib))

\* the documents of the process_documents calls
IngestDocs == SeqsUpTo(DocKinds, MaxIngest)

\* the calls as process_documents sees them: the number of documents and
\* their chunks
IngestCases == {[document_count |-> Len(d), c |-> ChunkDocuments(d)] : d \in IngestDocs}

\* mutant: the index is saved before the chunks are added to it
SaveBeforeAdd(save_index, o) ==
  IF save_index /\ o.persisted
  THEN [exists |-> TRUE, index_file |-> WriteIndex(index),
        sidecar |-> JsonDump(documents, metadata, config)]
  ELSE disk

\* the files vector_db.save has written, if it ran
SaveIfAsked(save_index, o) ==
  IF save_index /\ o.persisted
  THEN [exists |-> TRUE, index_file |-> WriteIndex(o.index),
        sidecar |-> JsonDump(o.documents, o.metadata, config)]
  ELSE disk

SavedIfAsked(save_index, o) ==
  IF save_index /\ o.persisted
  THEN [valid |-> TRUE, index |-> o.index, documents |-> o.documents,
        metadata |-> o.metadata]
  ELSE saved

\* the results dictionary process_documents returns
IngestResults(document_count, chunks, o) ==
  IF o.raised # "none" THEN [status |-> "raised"]
  ELSE [status |-> "success", document_count |-> document_count,
        chunk_count |-> Len(chunks)]

ProcessDocumentsCall ==
  \E ic \in IngestCases, save_index \in BOOLEAN :
    \E o \in {ProcessChunks(ic.c, save_index, lib) : lib \in Libraries} :
      /\ Len(o.index.xb) <= MaxChunks
      /\ index' = o.index
      /\ documents' = o.documents
      /\ metadata' = o.metadata
      /\ disk' = SaveIfAsked(save_index, o)
      /\ saved' = SavedIfAsked(save_index, o)
      /\ ing' = [op |-> "process_documents", save_index |-> save_index,
                 chunks |-> ic.c.chunks,
                 steps |-> o.steps, encode_calls |-> o.encode_calls,
                 raised |-> o.raised,
                 results |-> IngestResults(ic.document_count, ic.c.chunks, o),
                 ntotal_before |-> Len(index.xb)]
      /\ UNCHANGED <<config, ret, fmt, rag, chk, aq, conc, api>>

\* the configuration of the pipeline that ingests
IngestConfigs ==
  [index_type : {"IndexFlatIP"}, dimension : {2}, similarity_threshold : {7},
   top_k : {2}, normalize_L2 : {TRUE}, max_context_length : {4000}]

InitIngest == InitWith(IngestConfigs)

NextIngest == ProcessDocumentsCall

SpecIngest == InitIngest /\ [][NextIngest]_vars

-----------------------------------------------------------------------------
(* Claims about the RAG pipeline and its API *)

\* a call of answer_question (directly or through POST /ask) has returned
AnsweredOne == rag.op = "response" /\ rag.call.fn \in {"answer_question", "ask"}

\* a call of batch_answer_questions (directly or through POST /ask/batch) has returned
AnsweredBatch ==
  rag.op = "response" /\ rag.call.fn \in {"batch_answer_questions", "ask_batch"}

\* the exception raised by retrieval, formatting or generation in the call
\* that has returned ("none" when no step raised)
StepRaised ==
  IF rag.seen.raised # "none" THEN rag.seen.raised
  ELSE IF rag.seen.found > 0 /\ rag.call.fault = "format" THEN "FormatError"
  ELSE IF rag.seen.found > 0 /\ rag.call.fault = "generate" THEN "GenerationError"
  ELSE "none"

\* C1: answer_question never raises to its caller; whenever retrieval, context
\* formatting or generation raises, it returns an Answer with confidence 0.0,
\* an empty sources list, retrieved_documents 0 and an error field that
\* carries the message of the exception.
C1_NeverRaises ==
  AnsweredOne =>
    /\ rag.escaped = "none"
    /\ StepRaised # "none" =>
         /\ rag.result.confidence = ZeroConfidence
         /\ rag.result.sources = <<>>
         /\ rag.result.retrieved_documents = 0
         /\ "error" \in DOMAIN rag.result
         /\ rag.result.error = Message(StepRaised)

\* the generation step raised after a non-empty retrieval and the caller got
\* the error Answer
C1_Witness ==
  /\ AnsweredOne
  /\ rag.seen.found > 0
  /\ rag.call.fault = "generate"
  /\ rag.escaped = "none"
  /\ rag.result.error = Message("GenerationError")

\* C2: when retrieval yields zero results, or the index has zero entries,
\* answer_question returns confidence 0.0 and retrieved_documents 0 and does
\* not invoke the language model.
C2_NoResultsNoGeneration ==
  (AnsweredOne /\ (rag.seen.ntotal = 0 \/ (rag.seen.raised = "none" /\ rag.seen.found = 0))) =>
    /\ rag.escaped = "none"
    /\ rag.result.confidence = ZeroConfidence
    /\ rag.result.retrieved_documents = 0
    /\ rag.llm = <<>>

\* a search of a non-empty index found nothing at or above the threshold
C2_Witness ==
  /\ AnsweredOne
  /\ rag.seen.ntotal > 0
  /\ rag.seen.raised = "none"
  /\ rag.seen.found = 0
  /\ rag.result = NoResultsAnswer
  /\ rag.llm = <<>>

\* a sequence without its j-th element
Without(seq, j) ==
  [i \in 1..(Len(seq) - 1) |-> IF i < j THEN seq[i] ELSE seq[i + 1]]

\* C3: batch_answer_questions returns exactly one Answer per question, in the
\* order of the questions, no exception escapes it, a question whose
\* processing fails gets an Answer with a populated error field, and the
\* Answers of the other questions are those of the batch without the failing
\* question (processing times apart, which the model keeps abstract).
C3_BatchIsolation ==
  AnsweredBatch =>
    /\ rag.escaped = "none"
    /\ Len(rag.results) = Len(rag.call.questions)
    /\ \A i \in 1..Len(rag.call.questions) :
         /\ rag.results[i] =
              AnswerQuestion(rag.call.questions[i], rag.call.k, rag.call.faults[i]).result
         /\ rag.call.faults[i] # "none" =>
              /\ "error" \in DOMAIN rag.results[i]
              /\ Len(rag.results[i].error) > 0
              /\ Without(rag.results, i) =
                   BatchAnswerQuestions(Without(rag.call.questions, i), rag.call.k,
                                        Without(rag.call.faults, i)).results

\* three questions, the second fails in the embedding model, the first and
\* the third are answered
C3_Witness ==
  /\ AnsweredBatch
  /\ Len(rag.call.questions) = 3
  /\ rag.call.faults[2] = "encode"
  /\ Len(rag.results) = 3
  /\ "error" \notin DOMAIN rag.results[1]
  /\ "error" \in DOMAIN rag.results[2]
  /\ "error" \notin DOMAIN rag.results[3]

\* the Answer is one of the error path or of the no-results path
Degraded(result) == "error" \in DOMAIN result \/ result = NoResultsAnswer

\* C4: a degraded Answer carries the fields of a successful one, question and
\* context_length included, and POST /ask turns it into a QuestionResponse
\* with zero confidence, status 200.
C4_DegradedIsWellFormed ==
  (rag.op = "response" /\ rag.call.fn = "ask" /\ rag.escaped = "none"
     /\ Degraded(rag.result)) =>
    /\ {"question", "context_length"} \subseteq DOMAIN rag.result
    /\ rag.http.status = 200
    /\ rag.http.body.confidence = ZeroConfidence

-----------------------------------------------------------------------------
(* Claims about the VectorDatabase *)

\* the queries and the k arguments of a search
Queries == {RawEmbedding(t) : t \in Texts}
Ks == 0..MaxK

\* C5: search_with_metadata never returns a result whose similarity is below
\* the configured similarity_threshold, for IndexFlatIP and for IndexFlatL2.
C5_ResultsAtOrAboveThreshold ==
  ret.op = "search_with_metadata" =>
    \A i \in 1..Len(ret.results) :
      ret.results[i].similarity >= config.similarity_threshold

\* a search over two stored entries that returned one and filtered the other
C5_Witness ==
  /\ ret.op = "search_with_metadata"
  /\ ret.raised = "none"
  /\ config.index_type = "IndexFlatL2"
  /\ Len(documents) = 2
  /\ ret.k = 2
  /\ Len(ret.results) = 1

\* the vector add_documents stores for a document of the model
StoredVector(t) ==
  IF config.normalize_L2 THEN NormalizeL2(RawEmbedding(t)) ELSE RawEmbedding(t)

\* C6: after any sequence of add_documents, clear, save and load calls the
\* index, documents and metadata have the same length, and position i of the
\* three belongs to the same entry.
C6_Aligned ==
  /\ Len(index.xb) = Len(documents)
  /\ Len(metadata) = Len(documents)
  /\ \A i \in 1..Len(documents) :
        /\ index.xb[i] = StoredVector(documents[i])
        /\ "title" \in DOMAIN metadata[i] => metadata[i].title = documents[i]

\* C7: an add_documents call with len(documents) # len(embeddings) raises and
\* leaves the index, documents and metadata exactly as they were.
C7_MismatchFailsFast ==
  [][(ret'.op = "add_documents" /\ ret'.nd # ret'.ne) =>
       /\ ret'.raised = "ValueError"
       /\ index' = index
       /\ documents' = documents
       /\ metadata' = metadata]_vars

\* a mismatched call was made on a database that holds entries
C7_Witness ==
  /\ ret.op = "add_documents"
  /\ ret.nd # ret.ne
  /\ ret.raised = "ValueError"
  /\ Len(documents) > 0

C9_OnlyStoredEntries ==
  ret.op = "search_with_metadata" =>
    \A i \in 1..Len(ret.results) :
      /\ ret.results[i].index >= 0
      /\ ret.results[i].index < Len(documents)

-----------------------------------------------------------------------------
(* Claims about format_context *)

\* the first p results, formatted
FormattedPrefix(rs, p) == [i \in 1..p |-> FormattedResult(rs[i], i)]

RECURSIVE SumOfLengths(_)
SumOfLengths(parts) ==
  IF Len(parts) = 0 THEN 0 ELSE Len(parts[1]) + SumOfLengths(Tail(parts))

\* C10: the context is the whole formatted results of a prefix of the ranked
\* results, joined in rank order, and the prefix is the longest one that
\* fits: the formatted results of the prefix add up to at most max_length,
\* and adding the next result would exceed it.
C10_WholeResultsLongestPrefix ==
  fmt.op = "format_context" =>
    LET rs == fmt.search_results
        budget == MaxLength(fmt.max_context_length)
    IN  \E p \in 0..Len(rs) :
          /\ fmt.context = JoinLines(FormattedPrefix(rs, p))
          /\ SumOfLengths(FormattedPrefix(rs, p)) <= budget
          /\ p < Len(rs) => SumOfLengths(FormattedPrefix(rs, p + 1)) > budget

\* three results of which two fit and the third was dropped
C10_Witness ==
  /\ fmt.op = "format_context"
  /\ Len(fmt.search_results) = 3
  /\ fmt.context = JoinLines(FormattedPrefix(fmt.search_results, 2))
  /\ fmt.context # JoinLines(FormattedPrefix(fmt.search_results, 3))

\* C11: the string format_context returns, separators between results
\* included, is no longer than max_length.
C11_ContextWithinBudget ==
  fmt.op = "format_context" =>
    Len(fmt.context) <= MaxLength(fmt.max_context_length)

\* the sum of the similarity scores of the first n results
RECURSIVE SimilaritySum(_, _)
SimilaritySum(results, n) ==
  IF n = 0 THEN 0 ELSE SimilaritySum(results, n - 1) + results[n].similarity

\* the call that has returned took the success path of answer_question
Succeeded ==
  /\ AnsweredOne
  /\ rag.escaped = "none"
  /\ "error" \notin DOMAIN rag.result
  /\ rag.result # NoResultsAnswer

\* C12: on the success path of answer_question the confidence is the
\* arithmetic mean of the similarity scores of the retrieved results, the
\* results that passed the threshold filter, and retrieved_documents is their
\* number.
C12_ConfidenceIsMean ==
  Succeeded =>
    \E r \in {PipelineSearch(rag.call.question, rag.call.k, rag.call.fault)} :
      /\ Len(r.results) > 0
      /\ \A i \in 1..Len(r.results) :
           r.results[i].similarity >= config.similarity_threshold
      /\ rag.result.retrieved_documents = Len(r.results)
      /\ rag.result.confidence.den > 0
      /\ rag.result.confidence.num * Len(r.results) =
           SimilaritySum(r.results, Len(r.results)) * rag.result.confidence.den

\* an answer from two results of different similarity
C12_Witness ==
  /\ Succeeded
  /\ rag.result.retrieved_documents = 2
  /\ rag.result.sources[1].similarity # rag.result.sources[2].similarity
  /\ rag.result.confidence.num =
       rag.result.sources[1].similarity + rag.result.sources[2].similarity
  /\ rag.result.confidence.den = 2

-----------------------------------------------------------------------------
(* Claims about clear, position assignment and the size of a result list *)

\* the metadata of the entry at position i (counted from 1) is the one given
\* for its text, or the default metadata of a batch
MetadataOfEntry(meta, docs, i) ==
  \/ meta[i] = MetaOf(docs[i])
  \/ \E j \in 0..(MaxBatch - 1) : meta[i] = [index |-> j]

\* C18: clear() leaves an empty index of the configured type and dimension,
\* no document and no metadata entry, leaves index_type, dimension, top_k and
\* similarity_threshold as they were, and the add_documents call that follows
\* it assigns positions from 0 on.
C18_ClearLeavesEmptyIndex ==
  /\ [](ret.op = "clear" =>
          /\ index = [metric |-> config.index_type, d |-> config.dimension, xb |-> <<>>]
          /\ documents = <<>>
          /\ metadata = <<>>)
  /\ [][ret'.op = "clear" => config' = config]_vars
  /\ [][(ret.op = "clear" /\ ret'.op = "add_documents" /\ ret'.raised = "none") =>
          /\ Len(documents') = ret'.nd
          /\ index'.xb = [i \in 1..ret'.nd |-> StoredVector(documents'[i])]
          /\ Len(metadata') <= ret'.nd
          /\ \A i \in 1..Len(metadata') : MetadataOfEntry(metadata', documents', i)]_vars

\* clear() was called on a database of two entries
C18_Witness ==
  /\ ret.op = "clear"
  /\ ret.dropped = 2
  /\ Len(index.xb) = 0
  /\ config.index_type = "IndexFlatL2"

\* C19: an add_documents call puts the vector, the text and the metadata of
\* its i-th new entry at position count + i, count being the number of
\* entries before the call, and no call but clear() changes what is stored at
\* a position assigned earlier.
C19_AppendOnlyPositions ==
  /\ [][(ret'.op = "add_documents" /\ ret'.raised = "none") =>
          /\ Len(documents) = Len(index.xb)
          /\ Len(documents') = Len(index.xb) + ret'.nd
          /\ SubSeq(documents', 1, Len(documents)) = documents
          /\ index'.xb = index.xb \o [i \in 1..ret'.nd |->
                                       StoredVector(documents'[Len(index.xb) + i])]
          /\ SubSeq(metadata', 1, Len(metadata)) = metadata
          /\ Len(metadata') = Len(index.xb) + ret'.nd
          /\ \A i \in 1..ret'.nd :
               MetadataOfEntry(metadata', documents', Len(index.xb) + i)]_vars
  /\ [][ret'.op = "search_with_metadata" =>
          (index' = index /\ documents' = documents /\ metadata' = metadata)]_vars

\* C20: search_with_metadata returns at most k results, at most top_k when k
\* is not given.
C20_AtMostKResults ==
  (ret.op = "search_with_metadata" /\ ret.raised = "none") =>
    Len(ret.results) <= (IF ret.k = 0 THEN config.top_k ELSE ret.k)

\* a search with k = 2 over two stored entries that returned no result: both
\* were scanned and both fell below the threshold
C20_Witness ==
  /\ ret.op = "search_with_metadata"
  /\ ret.raised = "none"
  /\ ret.k = 2
  /\ Len(index.xb) = 2
  /\ Len(ret.results) = 0

-----------------------------------------------------------------------------
(* Claims about chunk_text *)

\* C13: chunk_text returns an empty list for the empty text and for every
\* text shorter than min_chunk_size.
C13_ShortTextNoChunks ==
  (chk.op = "chunk_text" /\ Len(chk.text) < chk.args.min_chunk_size) =>
    chk.chunks = <<>>

\* C14: every chunk but the last has a length within
\* [min_chunk_size, max_chunk_size], and the last one is not longer than
\* max_chunk_size.
C14_ChunkLengthWithinBounds ==
  chk.op = "chunk_text" =>
    \A i \in 1..Len(chk.chunks) :
      /\ Len(chk.chunks[i]) <= chk.args.max_chunk_size
      /\ i < Len(chk.chunks) => Len(chk.chunks[i]) >= chk.args.min_chunk_size

\* C15: when chunk_text returns more than one chunk, every chunk has at most
\* chunk_size + chunk_overlap characters.
C15_ChunkAtMostSizePlusOverlap ==
  (chk.op = "chunk_text" /\ Len(chk.chunks) > 1) =>
    \A i \in 1..Len(chk.chunks) :
      Len(chk.chunks[i]) <= chk.args.chunk_size + chk.args.chunk_overlap

\* the words of a text, sentence terminators taken as separators
Tokens(s) == SelectSeq(SplitChars(s, {" ", "."}, <<>>), IsNonEmpty)

\* C16: chunk_text omits no content: every word of every sentence of a
\* non-empty cleaned text is a word of at least one returned chunk.
C16_NoContentOmitted ==
  chk.op = "chunk_text" =>
    \A w \in {Tokens(CleanText(chk.text))[j] : j \in 1..Len(Tokens(CleanText(chk.text)))} :
      \E i \in 1..Len(chk.chunks) :
        \E j \in 1..Len(Tokens(chk.chunks[i])) : Tokens(chk.chunks[i])[j] = w

-----------------------------------------------------------------------------
(* Claims about process_documents *)

\* C17: process_documents given no document, or documents that give no
\* chunk, fails, does not call the embedding model's encode, and adds nothing
\* to the vector index.
C17_EmptyBatchFailsWithoutEncoding ==
  (ing.op = "process_documents" /\ ing.chunks = <<>>) =>
    /\ ing.raised # "none"
    /\ ing.encode_calls = <<>>
    /\ Len(index.xb) = ing.ntotal_before

-----------------------------------------------------------------------------
(* Claims about the answers of answer_question *)

\* C23: the language model is never called with an empty context: whenever
\* answer_question invokes generate_with_context, the context string it
\* passes is non-empty, also when max_context_length is smaller than the
\* first formatted result.
C23_NoGenerationFromEmptyContext ==
  AnsweredOne => \A i \in 1..Len(rag.llm) : rag.llm[i].context # ""

\* C27: the confidence of every Answer of answer_question is exactly 0.0 or
\* at least the configured similarity_threshold; with a threshold in [0, 1]
\* it lies in [0, 1].
C27_ConfidenceZeroOrAtLeastThreshold ==
  (AnsweredOne /\ rag.escaped = "none") =>
    /\ rag.result.confidence.den > 0
    /\ \/ rag.result.confidence.num = 0
       \/ rag.result.confidence.num >=
            config.similarity_threshold * rag.result.confidence.den
    /\ (config.similarity_threshold >= 0 /\ config.similarity_threshold <= Scale) =>
         /\ rag.result.confidence.num >= 0
         /\ rag.result.confidence.num <= Scale * rag.result.confidence.den

\* an answer whose confidence lies strictly between the threshold and 1.0
C27_Witness ==
  /\ Succeeded
  /\ rag.result.confidence.num >
       config.similarity_threshold * rag.result.confidence.den
  /\ rag.result.confidence.num < Scale * rag.result.confidence.den

\* C28: in every Answer of answer_question len(sources) equals
\* retrieved_documents: on the success path one source entry per retrieved
\* result, in rank order, also for the results format_context left out of the
\* context; on the no-results and error paths both are 0.
C28_OneSourcePerResult ==
  (AnsweredOne /\ rag.escaped = "none") =>
    /\ Len(rag.result.sources) = rag.result.retrieved_documents
    /\ Succeeded =>
         \E r \in {PipelineSearch(rag.call.question, rag.call.k, rag.call.fault)} :
           /\ Len(rag.result.sources) = Len(r.results)
           /\ \A i \in 1..Len(r.results) :
                /\ rag.result.sources[i].similarity = r.results[i].similarity
                /\ rag.result.sources[i].title =
                     DictGet(r.results[i].metadata, "title", "Unknown")
                /\ rag.result.sources[i].source =
                     DictGet(r.results[i].metadata, "source", "unknown")
    /\ ~Succeeded =>
         /\ rag.result.sources = <<>>
         /\ rag.result.retrieved_documents = 0

\* an answer from two results of which the context holds none
C28_Witness ==
  /\ Succeeded
  /\ rag.result.retrieved_documents = 2
  /\ Len(rag.result.sources) = 2
  /\ rag.result.sources[1].title # rag.result.sources[2].title
  /\ rag.result.context_length = 0

-----------------------------------------------------------------------------
(* Claims about the word-based fallback of chunk_text *)

\* the chunk_text call that has returned made its chunks by words
UsedWordFallback ==
  /\ chk.op = "chunk_text"
  /\ chk.text # <<>>
  /\ Len(SentenceLoop(Sentences(CleanText(chk.text)), 1, <<>>, <<>>,
                      chk.args.min_chunk_size, chk.args.max_chunk_size)) <= 1

\* the words the fallback carried over from chunk i into chunk i + 1
CarriedOver(i) == OverlapWords(Split(chk.chunks[i]), chk.args.chunk_overlap)

\* C26: in the word-based fallback every new chunk is seeded only with words
\* from the tail of the previous chunk, at most ceil(chunk_overlap / 10) of
\* them; with chunk_overlap = 0 no word is carried over.
C26_OverlapAtMostTenthOfOverlap ==
  UsedWordFallback =>
    \A i \in 1..(Len(chk.chunks) - 1) :
      /\ Len(CarriedOver(i)) <= (chk.args.chunk_overlap + 9) \div 10
      /\ CarriedOver(i) =
           SubSeq(Split(chk.chunks[i]),
                  Len(Split(chk.chunks[i])) - Len(CarriedOver(i)) + 1,
                  Len(Split(chk.chunks[i])))
      /\ CarriedOver(i) = SubSeq(Split(chk.chunks[i + 1]), 1, Len(CarriedOver(i)))

-----------------------------------------------------------------------------
(* Claims about the steps of process_documents *)

\* the steps of a process_documents call, in the order of the code
IngestOrder == <<"chunk", "encode", "add", "save">>

\* C25: process_documents runs chunk, embed, add to index, optional persist
\* in this order, encodes the chunks of all documents with exactly one call
\* of encode, and persists the index only after the add and only when
\* save_index is true.  (A call that raises in chunking ends before encode.)
C25_OneEncodeThenAddThenPersist ==
  [][ing' # ing =>
       /\ ing'.encode_calls = IF Len(ing'.steps) >= 2 THEN <<ing'.chunks>> ELSE <<>>
       /\ ing'.steps = SubSeq(IngestOrder, 1, Len(ing'.steps))
       /\ ing'.raised = "none" =>
            ing'.steps = SubSeq(IngestOrder, 1, IF ing'.save_index THEN 4 ELSE 3)
       /\ ~ing'.save_index => disk' = disk
       /\ (ing'.raised = "none" /\ ing'.save_index) =>
            /\ Len(index'.xb) = Len(index.xb) + Len(ing'.chunks)
            /\ documents' = documents \o ing'.chunks
            /\ disk' = [exists |-> TRUE, index_file |-> WriteIndex(index'),
                        sidecar |-> JsonDump(documents', metadata', config)]
       /\ (ing'.raised = "none" /\ ~ing'.save_index) =>
            /\ Len(index'.xb) = Len(index.xb) + Len(ing'.chunks)
            /\ documents' = documents \o ing'.chunks]_vars

\* the chunks of two documents were encoded in one call and added, and the
\* index was saved with both
C25_Witness ==
  /\ ing.op = "process_documents"
  /\ ing.save_index
  /\ ing.raised = "none"
  /\ ing.results.document_count = 2
  /\ Len(ing.chunks) = 2
  /\ ing.encode_calls = <<ing.chunks>>
  /\ Len(metadata) = 2
  /\ metadata[1].document_index = 0
  /\ metadata[2].document_index = 1
  /\ disk.exists
  /\ Len(disk.sidecar.documents) = 2

\* C29 as stated: if process_documents raises at any step, chunking,
\* encoding, adding or saving, the vector index holds exactly the entries it
\* held before the call.
C29_AllOrNothing ==
  [][(ing' # ing /\ ing'.raised # "none") =>
       /\ index' = index
       /\ documents' = documents
       /\ metadata' = metadata]_vars

\* C29 as amended: if process_documents raises while chunking, encoding or
\* adding, the vector index holds exactly the entries it held before the call; if it
\* raises while saving, the index holds those entries followed by the chunks
\* of the call.
C29_AllOrNothingBeforeSave ==
  [][(ing' # ing /\ ing'.raised # "none") =>
       IF ing'.steps = IngestOrder
       THEN /\ Len(index'.xb) = Len(index.xb) + Len(ing'.chunks)
            /\ documents' = documents \o ing'.chunks
            /\ Len(metadata') = Len(metadata) + Len(ing'.chunks)
       ELSE /\ index' = index
            /\ documents' = documents
            /\ metadata' = metadata]_vars

\* add_documents raised on a batch of chunks and the index still holds the
\* chunk it held before
C29_Witness ==
  /\ ing.op = "process_documents"
  /\ ing.raised = "AddError"
  /\ ing.chunks # <<>>
  /\ ing.ntotal_before > 0
  /\ Len(index.xb) = ing.ntotal_before
  /\ Len(documents) = ing.ntotal_before

-----------------------------------------------------------------------------
(* Claims about the steps of answer_question *)

\* the steps of answer_question, in the order of the code
AnswerOrder == <<"retrieve", "format", "generate">>

\* a call of answer_question is in progress
AqRunning == aq.op \in {"format", "generate"}

\* the three outcomes of a call that has returned
AqNoResults == aq.result = NoResultsAnswer
AqError == "error" \in DOMAIN aq.result
AqSuccess == "question" \in DOMAIN aq.result

\* C24: every call of answer_question is terminal in every branch: its steps
\* run in the order retrieve, format context, generate, each at most once,
\* and the call ends in exactly one of the three outcomes no-relevant-
\* information answer, successful answer, error answer.
C24_TerminalInEveryBranch ==
  /\ [](aq.op # "init" => aq.trace = SubSeq(AnswerOrder, 1, Len(aq.trace)))
  /\ [](aq.op = "done" =>
          /\ Len(aq.trace) >= 1
          /\ Cardinality({o \in {"none", "error", "success"} :
                            \/ o = "none" /\ AqNoResults
                            \/ o = "error" /\ AqError
                            \/ o = "success" /\ AqSuccess}) = 1
          /\ AqNoResults =>
               /\ aq.trace = <<"retrieve">>
               /\ PipelineSearch(aq.call.question, aq.call.k, aq.call.fault).results = <<>>
          /\ AqSuccess =>
               /\ aq.trace = AnswerOrder
               /\ aq.call.fault = "none"
               /\ aq.result.retrieved_documents > 0
          /\ AqError =>
               \/ aq.call.fault = "encode" /\ aq.trace = <<"retrieve">>
               \/ aq.call.fault = "format" /\ aq.trace = <<"retrieve", "format">>
               \/ aq.call.fault = "generate" /\ aq.trace = AnswerOrder
               \/ aq.result.error = Message("IndexError") /\ aq.trace = <<"retrieve">>)
  /\ (AqRunning ~> aq.op = "done")

\* a call ended with the error answer after all three steps had run
C24_Witness ==
  /\ aq.op = "done"
  /\ aq.trace = AnswerOrder
  /\ aq.call.fault = "generate"
  /\ AqError

\* no add_documents call is between its length check and its return
NoWriteInFlight == conc.op = "init"

\* C22: a search interleaved with an add_documents in flight can find the
\* index holding more vectors than there are documents or metadata entries;
\* when no write is in flight the index, the documents array and the metadata
\* array have the same length, in the store and in what a search finds.
C22_AlignedWhenNoWriteInFlight ==
  /\ NoWriteInFlight =>
       /\ Len(index.xb) = Len(documents)
       /\ Len(index.xb) = Len(metadata)
  /\ (ret.op = "search_with_metadata" /\ "writer" \in DOMAIN ret /\ ret.writer = "init") =>
       /\ ret.ntotal = ret.ndocuments
       /\ ret.ntotal = ret.nmetadata

\* C21: once constructing a pipeline has failed on a model that does not
\* load, no later request makes another attempt to load a model.
C21_LoadFailureNotRetried == [][api.failed => api'.loads = api.loads]_vars

\* the vector store /ask searches
AskStore == api.heap[api.rag_pipeline]

\* C30: the EmbeddingPipeline of get_embedding_pipeline is another instance
\* than the one of the RAGPipeline, a /rebuild-index request leaves the store
\* /ask searches as it was, and once an accessor has built its instance it
\* hands out that instance ever after.
C30_SeparateInstances ==
  /\ [](api.rag_pipeline # 0 => api.rag_pipeline # api.embedding_pipeline)
  /\ [][(api.rag_pipeline # 0 /\ api'.op = "/rebuild-index") => AskStore' = AskStore]_vars
  /\ [][/\ api.rag_pipeline # 0 => api'.rag_pipeline = api.rag_pipeline
        /\ api.embedding_pipeline # 0 => api'.embedding_pipeline = api.embedding_pipeline]_vars
  /\ [](api.op = "/ask" /\ api.status = 200 => api.searched = AskStore)

\* /rebuild-index with clear_existing has cleared the loaded store of
\* get_embedding_pipeline while /ask has a loaded store of its own
C30_Witness ==
  /\ api.op = "/rebuild-index"
  /\ api.status = 200
  /\ api.clear_existing
  /\ api.rag_pipeline # 0
  /\ api.embedding_pipeline # 0
  /\ AskStore.documents = <<"alpha", "be">>
  /\ api.heap[api.embedding_pipeline] = EmptyStore

====
